---- MODULE Spec2Model ----
(***************************************************************************)
(* Model of the aggregation and duplicate-accounting engine of the file    *)
(* inventory dashboard (src/src/streamlit_segy/gui/app.py).                *)
(*                                                                         *)
(* Strings are sequences of one-character strings, so that title-casing,   *)
(* lower-casing, trimming and the last-dot regular expression are computed *)
(* and not assumed.  A missing value (pandas NaN / None) is the one-element*)
(* sequence NaN, which is no string of characters.                         *)
(* size_mb is a natural number of megabytes; a mean is the pair            *)
(* <<sum, count>>; a percentage is the pair <<100 * value, total>>, and    *)
(* comparisons of percentages are made in exact arithmetic.                *)
(***************************************************************************)
EXTENDS Integers, Sequences, FiniteSets, TLC

VARIABLES
    df,            \* the uploaded inventory table (main: pd.read_csv)
    pc,            \* position of the script run
    view_option,   \* the radio button's value of the last analysis
    df_prepared,   \* prepare_data_for_analysis: third return value
    dup_mask,      \* df.duplicated(subset=['hash'], keep='first') of that call
    summary,       \* prepare_data_for_analysis: detailed summary
    pie_summary,   \* prepare_data_for_analysis: summary for the pie charts
    fig_count,     \* create_pie_chart(pie_summary, 'Total Files', ...)
    fig_size,      \* create_pie_chart(pie_summary, 'Total Size (MB)', ...)
    ext_value,     \* a value handed to normalize_extension
    ext_results,   \* what normalize_extension made of it, and of its own result
    segy_files,    \* SEGYAnalyzer.segy_files: the SEG-Y records of the inventory
    missing_files, \* SEGYAnalyzer.missing_files
    error_files,   \* SEGYAnalyzer.error_files
    analysis_df,   \* what the last analyze_segy_files returned
    coverage,      \* what the last get_survey_coverage returned
    segy_calls,    \* the SEGYAnalyzer methods called so far
    found_files    \* the condition in which the last call found the file of
                   \* every SEG-Y record

dashboard_vars == <<df, pc, view_option, df_prepared, dup_mask, summary,
                    pie_summary, fig_count, fig_size>>

normalizer_vars == <<ext_value, ext_results>>

analyzer_vars == <<segy_files, missing_files, error_files, analysis_df, coverage,
                   segy_calls, found_files>>

vars == <<dashboard_vars, normalizer_vars, analyzer_vars>>

-----------------------------------------------------------------------------
(* Bounds of the model *)

MaxRecords == 2
MaxCategories == 9
BigVal == 7
MaxNameLen == 4
MaxApplications == 2
MaxSegyRecords == 2
MaxCalls == 2

-----------------------------------------------------------------------------
(* Characters and strings *)

NaN == <<"<NA>">>

UpperCase == <<"A","B","C","D","E","F","G","H","I","J","K","L","M",
               "N","O","P","Q","R","S","T","U","V","W","X","Y","Z">>
LowerCase == <<"a","b","c","d","e","f","g","h","i","j","k","l","m",
               "n","o","p","q","r","s","t","u","v","w","x","y","z">>

\* Code-point order of the characters the model uses.
CodePoints == <<" ", ".">> \o UpperCase \o LowerCase

OrdOf == [c \in {CodePoints[i] : i \in 1..Len(CodePoints)} |->
             CHOOSE i \in 1..Len(CodePoints) : CodePoints[i] = c]

Ord(c) == OrdOf[c]

UpperSet == {UpperCase[i] : i \in 1..Len(UpperCase)}
LowerSet == {LowerCase[i] : i \in 1..Len(LowerCase)}

LowerOf == [c \in UpperSet |-> LowerCase[CHOOSE i \in 1..Len(UpperCase) : UpperCase[i] = c]]
UpperOf == [c \in LowerSet |-> UpperCase[CHOOSE i \in 1..Len(LowerCase) : LowerCase[i] = c]]

IsUpper(c) == c \in UpperSet
IsLower(c) == c \in LowerSet
IsCased(c) == IsUpper(c) \/ IsLower(c)

ToLower(c) == IF IsUpper(c) THEN LowerOf[c] ELSE c

ToUpper(c) == IF IsLower(c) THEN UpperOf[c] ELSE c

\* str.lower()
Lower(s) == [i \in 1..Len(s) |-> ToLower(s[i])]

\* str.strip(): leading and trailing whitespace removed
IsSpace(c) == c = " "

RECURSIVE LStrip(_)
LStrip(s) == IF s # <<>> /\ IsSpace(Head(s)) THEN LStrip(Tail(s)) ELSE s

RECURSIVE RStrip(_)
RStrip(s) ==
    IF s # <<>> /\ IsSpace(s[Len(s)]) THEN RStrip(SubSeq(s, 1, Len(s) - 1)) ELSE s

Strip(s) == RStrip(LStrip(s))

\* str.title(): a cased character is upper-cased when it follows an uncased
\* one (or starts the string) and lower-cased when it follows a cased one.
Title(s) ==
    [i \in 1..Len(s) |->
        IF i > 1 /\ IsCased(s[i - 1]) THEN ToLower(s[i]) ELSE ToUpper(s[i])]

\* Series.str.title(): missing values stay missing
StrTitle(x) == IF x = NaN THEN NaN ELSE Title(x)

\* Lexicographic order of strings by code point
RECURSIVE StrLess(_, _)
StrLess(a, b) ==
    IF b = <<>> THEN FALSE
    ELSE IF a = <<>> THEN TRUE
    ELSE IF Head(a) = Head(b) THEN StrLess(Tail(a), Tail(b))
    ELSE Ord(Head(a)) < Ord(Head(b))

\* Lexicographic order of key tuples (tuples of strings)
RECURSIVE KeyLess(_, _)
KeyLess(k1, k2) ==
    IF k1 = <<>> \/ k2 = <<>> THEN FALSE
    ELSE IF Head(k1) = Head(k2) THEN KeyLess(Tail(k1), Tail(k2))
    ELSE StrLess(Head(k1), Head(k2))

-----------------------------------------------------------------------------
(* Record Normalizer *)

NoExtension == <<"n","o"," ","e","x","t","e","n","s","i","o","n">>

\* The characters after the first '.', as r'\.(.+)$' would capture them
StrExtractFirstDot(name) ==
    IF name = NaN THEN NaN
    ELSE LET dots == {i \in 1..Len(name) : name[i] = "."}
         IN  IF dots = {} THEN NaN
             ELSE LET first == CHOOSE i \in dots : \A j \in dots : i <= j
                  IN  IF first = Len(name) THEN NaN
                      ELSE SubSeq(name, first + 1, Len(name))

\* Series.str.extract(r'\.([^.]+)$'): the characters after the last '.', when
\* there is a '.' and at least one character follows it; otherwise missing.
StrExtract(name) ==
    IF name = NaN THEN NaN
    ELSE LET dots == {i \in 1..Len(name) : name[i] = "."}
         IN  IF dots = {} THEN NaN
             ELSE LET last == CHOOSE i \in dots : \A j \in dots : j <= i
                  IN  IF last = Len(name) THEN NaN
                      ELSE SubSeq(name, last + 1, Len(name))

\* normalize_extension with a capitalised text for no extension
normalize_extension_titled(ext) ==
    IF ext = NaN \/ ext = <<>> THEN Title(NoExtension)
    ELSE LET e == Strip(Lower(ext))
         IN  IF e # <<>> THEN e ELSE Title(NoExtension)

normalize_extension(ext) ==
    IF ext = NaN \/ ext = <<>> THEN NoExtension
    ELSE LET e == Strip(Lower(ext))
         IN  IF e # <<>> THEN e ELSE NoExtension


-----------------------------------------------------------------------------
(* Sequence helpers standing for the pandas primitives the code uses *)

\* df[mask]: the rows whose mask entry is TRUE, in order
RECURSIVE Filter(_, _)
Filter(d, mask) ==
    IF d = <<>> THEN <<>>
    ELSE (IF Head(mask) THEN <<Head(d)>> ELSE <<>>) \o Filter(Tail(d), Tail(mask))

\* Series.sum() of a column
RECURSIVE SumCol(_, _)
SumCol(d, col) == IF d = <<>> THEN 0 ELSE Head(d)[col] + SumCol(Tail(d), col)

\* Series.count(): the number of values of a column that are not missing
RECURSIVE CountCol(_, _)
CountCol(d, col) ==
    IF d = <<>> THEN 0
    ELSE (IF Head(d)[col] # NaN THEN 1 ELSE 0) + CountCol(Tail(d), col)

\* The key of a row under the grouping columns
KeyOf(r, keycols) == [i \in 1..Len(keycols) |-> r[keycols[i]]]

HasNaN(k) == \E i \in 1..Len(k) : k[i] = NaN

\* groupby(keycols) with its defaults sort=True, dropna=True: the distinct
\* keys without a missing component, in ascending order
RECURSIVE InsertKey(_, _)
InsertKey(sorted, k) ==
    IF sorted = <<>> THEN <<k>>
    ELSE IF KeyLess(k, Head(sorted)) THEN <<k>> \o sorted
    ELSE <<Head(sorted)>> \o InsertKey(Tail(sorted), k)

RECURSIVE SortKeys(_)
SortKeys(S) ==
    IF S = {} THEN <<>>
    ELSE LET k == CHOOSE x \in S : TRUE
         IN  InsertKey(SortKeys(S \ {k}), k)

GroupKeys(d, keycols) ==
    SortKeys({k \in {KeyOf(d[i], keycols) : i \in 1..Len(d)} : ~HasNaN(k)})

\* The rows of one group, in table order
RECURSIVE GroupRows(_, _, _)
GroupRows(d, keycols, k) ==
    IF d = <<>> THEN <<>>
    ELSE (IF KeyOf(Head(d), keycols) = k THEN <<Head(d)>> ELSE <<>>)
         \o GroupRows(Tail(d), keycols, k)

\* sort_values(col, ascending=False): rows in non-increasing order of col,
\* rows with equal values keeping their order (the default kind, quicksort, is
\* an insertion sort on the tables of at most 16 rows that the model reaches)
RECURSIVE InsertDesc(_, _, _)
InsertDesc(sorted, r, col) ==
    IF sorted = <<>> THEN <<r>>
    ELSE IF Head(sorted)[col] >= r[col]
         THEN <<Head(sorted)>> \o InsertDesc(Tail(sorted), r, col)
         ELSE <<r>> \o sorted

RECURSIVE SortValuesDesc(_, _)
SortValuesDesc(d, col) ==
    IF d = <<>> THEN <<>>
    ELSE InsertDesc(SortValuesDesc(SubSeq(d, 1, Len(d) - 1), col), d[Len(d)], col)

-----------------------------------------------------------------------------
(* Duplicate Classifier *)

\* df.duplicated(subset=['hash'], keep='first'): a row is marked when its hash
\* was seen on an earlier row
RECURSIVE DuplicatedFrom(_, _)
DuplicatedFrom(d, seen) ==
    IF d = <<>> THEN <<>>
    ELSE <<Head(d).hash \in seen>> \o DuplicatedFrom(Tail(d), seen \cup {Head(d).hash})

\* keep='last': a row is marked when its hash recurs on a later row
DuplicatedLast(d) ==
    [i \in 1..Len(d) |-> \E j \in (i + 1)..Len(d) : d[j].hash = d[i].hash]

Duplicated(d) == DuplicatedFrom(d, {})

\* df.duplicated(subset=['hash'], keep=False): every row whose hash recurs
DuplicatedAll(d) ==
    [i \in 1..Len(d) |-> \E j \in 1..Len(d) : j # i /\ d[j].hash = d[i].hash]

-----------------------------------------------------------------------------
(* Grouped Aggregator and Rollup Aggregator: prepare_data_for_analysis *)

ViewOptions == {"File Type", "Extension"}

\* df['file_type'] = df['file_type'].str.title()
TitleTypes(d) == [i \in 1..Len(d) |-> [d[i] EXCEPT !.file_type = StrTitle(@)]]

\* df['extension'] = df['file_name'].str.extract(...).apply(normalize_extension)
WithExtension(d) ==
    [i \in 1..Len(d) |->
        [file_name |-> d[i].file_name, file_type |-> d[i].file_type,
         size_mb |-> d[i].size_mb, hash |-> d[i].hash,
         extension |-> normalize_extension(StrExtract(d[i].file_name))]]

\* df.groupby(keycols).agg({'file_name': 'count', 'size_mb': ['mean', 'sum']})
\* .reset_index(): one row per key; the count is of the file names that are
\* not missing; the mean is <<sum, number of sizes>>.
TotalsOfGroup(k, g) ==
    [key |-> k,
     TotalFiles |-> CountCol(g, "file_name"),
     AvgSize |-> <<SumCol(g, "size_mb"), Len(g)>>,
     TotalSize |-> SumCol(g, "size_mb")]

TotalsOfGroups(d, keycols, keys) ==
    [n \in 1..Len(keys) |-> TotalsOfGroup(keys[n], GroupRows(d, keycols, keys[n]))]

AggTotals(d, keycols) == TotalsOfGroups(d, keycols, GroupKeys(d, keycols))

\* df[df.duplicated(subset=['hash'], keep='first')].groupby(keycols)
\* .agg({'file_name': 'count'}).reset_index()
CountsOfGroups(dupes, keycols, keys) ==
    [n \in 1..Len(keys) |->
        [key |-> keys[n],
         DuplicateFiles |-> CountCol(GroupRows(dupes, keycols, keys[n]), "file_name")]]

DuplicateRows(d) == Filter(d, Duplicated(d))

AggDuplicates(d, keycols) ==
    CountsOfGroups(DuplicateRows(d), keycols, GroupKeys(DuplicateRows(d), keycols))

\* The merge with how='inner': a left row without a right row is dropped
InnerJoined(l, hits) ==
    [j \in 1..Len(hits) |-> l @@ [DuplicateFiles |-> <<hits[j].DuplicateFiles>>]]

RECURSIVE MergeInner(_, _)
MergeInner(left, right) ==
    IF left = <<>> THEN <<>>
    ELSE InnerJoined(Head(left),
                     Filter(right, [j \in 1..Len(right) |-> right[j].key = Head(left).key]))
         \o MergeInner(Tail(left), right)

\* summary.merge(dupe_counts, on=keys, how='left'): every left row once per
\* right row of its key, and once with a missing count when there is none.
\* The count of a merged row is <<n>>, or <<>> when missing.
LeftJoined(l, hits) ==
    IF hits = <<>>
    THEN <<l @@ [DuplicateFiles |-> <<>>]>>
    ELSE [j \in 1..Len(hits) |-> l @@ [DuplicateFiles |-> <<hits[j].DuplicateFiles>>]]

RECURSIVE MergeLeft(_, _)
MergeLeft(left, right) ==
    IF left = <<>> THEN <<>>
    ELSE LeftJoined(Head(left),
                    Filter(right, [j \in 1..Len(right) |-> right[j].key = Head(left).key]))
         \o MergeLeft(Tail(left), right)

\* summary['Duplicate Files'].fillna(0).astype(int)
FillNa(cell) == IF cell = <<>> THEN 0 ELSE cell[1]

\* summary['Original Files'] = summary['Total Files'] - summary['Duplicate Files']
WithOriginals(merged) ==
    [n \in 1..Len(merged) |->
        LET dup == FillNa(merged[n].DuplicateFiles)
        IN  [key |-> merged[n].key,
             TotalFiles |-> merged[n].TotalFiles,
             AvgSize |-> merged[n].AvgSize,
             TotalSize |-> merged[n].TotalSize,
             DuplicateFiles |-> dup,
             OriginalFiles |-> merged[n].TotalFiles - dup]]

\* The detailed summary before its columns are named: lines 294-321 and
\* 333-360 apply the same steps to their grouping columns.
\* The merged table as the join leaves it, in the key order of groupby
DetailedUnsorted(d, keycols) ==
    WithOriginals(MergeLeft(AggTotals(d, keycols), AggDuplicates(d, keycols)))

Detailed(d, keycols) ==
    SortValuesDesc(
        WithOriginals(MergeLeft(AggTotals(d, keycols), AggDuplicates(d, keycols))),
        "TotalFiles")

\* summary.columns = ['Extension', 'File Type', 'Total Files', ...]
ExtensionColumns(rows) ==
    [n \in 1..Len(rows) |->
        [Extension |-> rows[n].key[1], FileType |-> rows[n].key[2],
         TotalFiles |-> rows[n].TotalFiles, AvgSize |-> rows[n].AvgSize,
         TotalSize |-> rows[n].TotalSize, DuplicateFiles |-> rows[n].DuplicateFiles,
         OriginalFiles |-> rows[n].OriginalFiles]]

\* summary.columns = ['File Type', 'Total Files', ...]
FileTypeColumns(rows) ==
    [n \in 1..Len(rows) |->
        [FileType |-> rows[n].key[1],
         TotalFiles |-> rows[n].TotalFiles, AvgSize |-> rows[n].AvgSize,
         TotalSize |-> rows[n].TotalSize, DuplicateFiles |-> rows[n].DuplicateFiles,
         OriginalFiles |-> rows[n].OriginalFiles]]

\* The rollup with an average size carried along as total size / total files
SumsOfExtension(k, g) ==
    [Extension |-> k[1],
     TotalFiles |-> SumCol(g, "TotalFiles"),
     DuplicateFiles |-> SumCol(g, "DuplicateFiles"),
     OriginalFiles |-> SumCol(g, "OriginalFiles"),
     TotalSize |-> SumCol(g, "TotalSize")]

SumsOfExtensions(s, keys) ==
    [n \in 1..Len(keys) |->
        SumsOfExtension(keys[n], GroupRows(s, <<"Extension">>, keys[n]))]

RollupWithAverage(s) ==
    [n \in 1..Len(GroupKeys(s, <<"Extension">>)) |->
        SumsOfExtensions(s, GroupKeys(s, <<"Extension">>))[n]
        @@ [AvgSize |-> <<SumsOfExtensions(s, GroupKeys(s, <<"Extension">>))[n].TotalSize,
                        SumsOfExtensions(s, GroupKeys(s, <<"Extension">>))[n].TotalFiles>>]]

\* summary.groupby('Extension').agg({'Total Files': 'sum', 'Duplicate Files':
\* 'sum', 'Original Files': 'sum', 'Total Size (MB)': 'sum'}).reset_index()
Rollup(s) == SumsOfExtensions(s, GroupKeys(s, <<"Extension">>))

\* The view "Extension", lines 289-329
PreparedByExtension(e, s) ==
    [summary |-> s, pie_summary |-> Rollup(s), df |-> e, duplicated |-> Duplicated(e)]

ByExtension(e) ==
    PreparedByExtension(e, ExtensionColumns(Detailed(e, <<"extension", "file_type">>)))

\* The view "File Type", lines 331-361
PreparedByFileType(typed, s) ==
    [summary |-> s, pie_summary |-> s, df |-> typed, duplicated |-> Duplicated(typed)]

ByFileType(typed) ==
    PreparedByFileType(typed, FileTypeColumns(Detailed(typed, <<"file_type">>)))

prepare_data_for_analysis(d, view) ==
    IF view = "Extension"
    THEN ByExtension(WithExtension(TitleTypes(d)))
    ELSE ByFileType(TitleTypes(d))

-----------------------------------------------------------------------------
(* Bucket Collapser: create_pie_chart *)

CollapseAbove == 8
MinMain == 7
CumulativePct == 95

Other == <<"O","t","h","e","r">>

Min(a, b) == IF a <= b THEN a ELSE b
Max(a, b) == IF a >= b THEN a ELSE b

\* df['percentage'] = (df[values] / total) * 100, kept as <<100 * value, total>>;
\* with total = 0 the quotient 0/0 is not a number.
PercentagesOf(d, values, total) ==
    [i \in 1..Len(d) |-> d[i] @@ [percentage |-> <<100 * d[i][values], total>>]]

WithPercentage(d, values) == PercentagesOf(d, values, SumCol(d, values))

PctIsNaN(p) == p[2] = 0

\* p >= q for two percentages that are numbers
PctGE(p, q) == p[1] * q[2] >= q[1] * p[2]

\* df.sort_values('percentage', ascending=False): non-increasing percentages,
\* equal ones in table order, rows without a number last in table order
RECURSIVE InsertDescPct(_, _)
InsertDescPct(sorted, r) ==
    IF sorted = <<>> THEN <<r>>
    ELSE IF PctIsNaN(r.percentage) \/ PctGE(Head(sorted).percentage, r.percentage)
         THEN <<Head(sorted)>> \o InsertDescPct(Tail(sorted), r)
         ELSE <<r>> \o sorted

RECURSIVE SortByPercentage(_)
SortByPercentage(d) ==
    IF d = <<>> THEN <<>>
    ELSE InsertDescPct(SortByPercentage(SubSeq(d, 1, Len(d) - 1)), d[Len(d)])

\* (df['percentage'].cumsum() < 95).sum(): the positions whose running sum of
\* percentages is a number below 95
RECURSIVE PctNumSum(_)
PctNumSum(d) == IF d = <<>> THEN 0 ELSE Head(d).percentage[1] + PctNumSum(Tail(d))

CumulativeBelow(d) ==
    Cardinality({i \in 1..Len(d) :
        /\ ~PctIsNaN(d[i].percentage)
        /\ PctNumSum(SubSeq(d, 1, i)) < CumulativePct * d[i].percentage[2]})

\* The cutoff without the "+ 1" of line 195
main_idx_without_next(d) == Min(Max(MinMain, CumulativeBelow(d)), Len(d) - 1)

\* The cutoff without the cap len(df) - 1 of line 196
main_idx_uncapped(d) == Max(MinMain, CumulativeBelow(d) + 1)

\* The cutoff that always keeps the first MinMain categories
main_idx_top_seven(d) == Min(MinMain, Len(d) - 1)

main_idx(d) == Min(Max(MinMain, CumulativeBelow(d) + 1), Len(d) - 1)

\* The 'Other' row summing all but the first of the collapsed categories
other_row_skipping_first(other_categories, values, names) ==
    (names :> Other) @@ (values :> SumCol(Tail(other_categories), values))
    @@ [percentage |-> <<PctNumSum(Tail(other_categories)),
                         other_categories[1].percentage[2]>>]

\* pd.DataFrame({names: ['Other'], values: [sum], 'percentage': [sum]})
other_row(other_categories, values, names) ==
    (names :> Other) @@ (values :> SumCol(other_categories, values))
    @@ [percentage |-> <<PctNumSum(other_categories),
                         IF other_categories = <<>> THEN 0
                         ELSE other_categories[1].percentage[2]>>]

\* Collapsing from 8 categories on instead of from 9
ShouldCollapseAtThreshold(d) == Len(d) >= CollapseAbove

\* if len(df) > 8
ShouldCollapse(d) == Len(d) > CollapseAbove

\* main_categories = df.iloc[:main_idx]; other_categories = df.iloc[main_idx:];
\* plot_df = pd.concat([main_categories, other_row]) unless nothing is left over
Concat(sorted, main, other, values, names) ==
    [collapsed |-> TRUE, main_categories |-> main, other_categories |-> other,
     plot_df |-> IF other # <<>>
                 THEN main \o <<other_row(other, values, names)>>
                 ELSE sorted]

Collapse(sorted, idx, values, names) ==
    Concat(sorted, SubSeq(sorted, 1, Min(idx, Len(sorted))),
           SubSeq(sorted, idx + 1, Len(sorted)), values, names)

CollapseSorted(sorted, values, names) ==
    Collapse(sorted, main_idx(sorted), values, names)

\* The figure's table left in the order of the concatenation
FinalSortSkipped(plot_df, values) == plot_df

\* plot_df = plot_df.sort_values(values, ascending=False)
FinalSort(plot_df, values) == SortValuesDesc(plot_df, values)

Sorted(c, values) == [c EXCEPT !.plot_df = FinalSort(@, values)]

Charted(p, values, names) ==
    Sorted(IF ShouldCollapse(p)
           THEN CollapseSorted(SortByPercentage(p), values, names)
           ELSE [collapsed |-> FALSE, main_categories |-> <<>>,
                 other_categories |-> <<>>, plot_df |-> p],
           values)


\* The data frames of create_pie_chart when it builds the figure: plot_df is
\* what the pie shows; main_categories and other_categories are empty when the
\* table is not collapsed.
create_pie_chart(d, values, names) == Charted(WithPercentage(d, values), values, names)

NoFigure ==
    [collapsed |-> FALSE, main_categories |-> <<>>, other_categories |-> <<>>,
     plot_df |-> <<>>]

-----------------------------------------------------------------------------
(* The two analyses of a script run *)

NamesColumn(view) == IF view = "File Type" THEN "FileType" ELSE "Extension"

\* pd.read_csv gives a column whose every value is missing the dtype float64,
\* on which the .str accessor raises AttributeError; a table without rows has
\* object columns.
NotStrings(d, col) == d # <<>> /\ \A i \in 1..Len(d) : d[i][col] = NaN

\* What an analysis leaves behind: prepare_data_for_analysis and the two charts
Analysed(d, view) ==
    \E r \in {prepare_data_for_analysis(d, view)} :
        /\ view_option' = view
        /\ df_prepared' = r.df
        /\ dup_mask' = r.duplicated
        /\ summary' = r.summary
        /\ pie_summary' = r.pie_summary
        /\ fig_count' = create_pie_chart(r.pie_summary, "TotalFiles", NamesColumn(view))
        /\ fig_size' = create_pie_chart(r.pie_summary, "TotalSize", NamesColumn(view))

Failed ==
    /\ pc' = "error"
    /\ UNCHANGED <<view_option, df_prepared, dup_mask, summary, pie_summary,
                   fig_count, fig_size>>

display_inventory_analysis(view) ==
    /\ pc = "loaded"
    /\ UNCHANGED <<df, normalizer_vars, analyzer_vars>>
    /\ IF \/ NotStrings(df, "file_type")
          \/ view = "Extension" /\ NotStrings(df, "file_name")
       THEN Failed
       ELSE /\ Analysed(TitleTypes(df), view)
            /\ pc' = "inventory"

\* total_files = len(df), and (duplicate_files / total_files) * 100, a division
\* of two Python integers, raises ZeroDivisionError when total_files is 0
total_files(d) == Len(d)

ZeroDivision(d) == total_files(d) = 0

display_duplicate_stats(view) ==
    /\ pc = "inventory"
    /\ UNCHANGED <<df, normalizer_vars, analyzer_vars>>
    /\ IF \/ NotStrings(df, "file_type")
          \/ ZeroDivision(df)
          \/ view = "Extension" /\ NotStrings(df, "file_name")
       THEN Failed
       ELSE /\ Analysed(Filter(TitleTypes(df), DuplicatedAll(df)), view)
            /\ pc' = "duplicates"

\* normalize_extension applied to a value, and then to what it returned
apply_normalize_extension ==
    /\ Len(ext_results) < MaxApplications
    /\ ext_results' =
           Append(ext_results,
                  normalize_extension(IF ext_results = <<>> THEN ext_value
                                      ELSE ext_results[Len(ext_results)]))
    /\ UNCHANGED <<ext_value, dashboard_vars, analyzer_vars>>

-----------------------------------------------------------------------------
(* SEGYAnalyzer (src/src/streamlit_segy/utils/segy_analyzer.py) *)

\* Series.str.endswith
EndsWith(s, suffix) ==
    /\ Len(s) >= Len(suffix)
    /\ SubSeq(s, Len(s) - Len(suffix) + 1, Len(s)) = suffix

\* file_name.str.lower().str.endswith(('.sgy', '.segy'))
IsSegy(name) ==
    \/ EndsWith(Lower(name), <<".","s","g","y">>)
    \/ EndsWith(Lower(name), <<".","s","e","g","y">>)

\* __init__: the analyzer keeps the SEG-Y records of the inventory
SEGYAnalyzer(d) ==
    /\ segy_files = Filter(d, [i \in 1..Len(d) |-> IsSegy(d[i].file_name)])
    /\ missing_files = <<>>
    /\ error_files = <<>>
    /\ analysis_df = <<>>
    /\ coverage = <<>>
    /\ segy_calls = <<>>
    /\ found_files = <<>>

\* What a call can find at a record's path: no file ("missing"), a file that
\* segyio.open rejects ("corrupt"), a file without traces and without
\* geometry, for which min() of an empty list raises ValueError ("empty"), or
\* a file that is read to the end ("readable").  Closing the file on leaving
\* the with block is taken not to raise.
Conditions == {"readable", "missing", "corrupt", "empty"}

ErrorOf(cond) ==
    IF cond = "corrupt" THEN "unable to open file"
    ELSE "min() arg is an empty sequence"

\* The lists of a call that keeps what the call before it left in them
kept_lists ==
    [results |-> <<>>, missing_files |-> missing_files, error_files |-> error_files]

\* results = [], self.missing_files = [], self.error_files = []
fresh_lists ==
    [results |-> <<>>, missing_files |-> <<>>, error_files |-> <<>>]

\* The body of the loop for one record: try ... except Exception.  Of the
\* result only the fields copied from the inventory are kept; the values read
\* from the file are left out.
process(row, cond, lists) ==
    IF cond = "missing"
    THEN [lists EXCEPT !.missing_files = Append(@, row.file_path)]
    ELSE IF cond = "readable"
    THEN [lists EXCEPT !.results =
             Append(@, [file_path |-> row.file_path, file_name |-> row.file_name,
                        size_mb |-> row.size_mb])]
    ELSE [lists EXCEPT !.error_files = Append(@, <<row.file_path, ErrorOf(cond)>>)]

\* for _, row in self.segy_files.iterrows()
RECURSIVE AnalyzeRows(_, _, _)
AnalyzeRows(rows, found, lists) ==
    IF rows = <<>> THEN lists
    ELSE AnalyzeRows(Tail(rows), Tail(found), process(Head(rows), Head(found), lists))

\* One run of analyze_segy_files, and the dictionary of get_survey_coverage
\* when that is the caller (total_area_km2 is left out, size in MB).
Analyzed(method, found) ==
    \E r \in {AnalyzeRows(segy_files, found, fresh_lists)} :
        /\ missing_files' = r.missing_files
        /\ error_files' = r.error_files
        /\ analysis_df' = r.results
        /\ coverage' =
              IF method = "get_survey_coverage"
              THEN [total_segy_files |-> Len(segy_files),
                    accessible_files |-> Len(r.results),
                    missing_files |-> Len(r.missing_files),
                    error_files |-> Len(r.error_files),
                    size_mb |-> SumCol(segy_files, "size_mb")]
              ELSE coverage
        /\ segy_calls' = Append(segy_calls, method)
        /\ found_files' = found

\* A call finds each file in some condition
Called(method) ==
    /\ \E found \in [1..Len(segy_files) -> Conditions] : Analyzed(method, found)
    /\ UNCHANGED <<segy_files, dashboard_vars, normalizer_vars>>

analyze_segy_files ==
    /\ Len(segy_calls) < MaxCalls
    /\ Called("analyze_segy_files")

get_survey_coverage ==
    /\ Len(segy_calls) < MaxCalls
    /\ Called("get_survey_coverage")

get_survey_boundaries ==
    /\ Len(segy_calls) < MaxCalls
    /\ Called("get_survey_boundaries")

-----------------------------------------------------------------------------
(* Inventories *)

FileNames == { <<"a",".","G","z">>, <<"c">>, NaN }
FileTypes == { <<"d","o","c">>, <<"L","O","G">>, NaN }
Sizes     == {1, 2}
Hashes    == {"h1", "h2"}

Records == [file_name : FileNames, file_type : FileTypes, size_mb : Sizes,
            hash : Hashes]

Inventories == UNION {[1..n -> Records] : n \in 0..MaxRecords}

\* Inventories of one file per extension, for the charts of many categories
ExtensionOf == <<"a","b","c","d","e","f","g","h","i","j","k","l">>
HashOf == <<"h1","h2","h3","h4","h5","h6","h7","h8","h9","h10","h11","h12">>

SizesWide == {0, 1, BigVal}

ScenarioSizes == <<40, 20, 10, 10, 5, 5, 4, 3, 3>>

WideInventory(sizes) ==
    [i \in 1..Len(sizes) |->
        [file_name |-> <<"f", ".", ExtensionOf[i]>>, file_type |-> <<"d","o","c">>,
         size_mb |-> sizes[i], hash |-> HashOf[i]]]

WideInventories ==
    {WideInventory(s) :
        s \in UNION {[1..n -> SizesWide] : n \in CollapseAbove..MaxCategories}
              \cup {ScenarioSizes}}

\* File names and file types for the record normalizer: every string of at
\* most MaxNameLen characters over a lower-case letter, an upper-case letter,
\* the dot and the blank, three names of real files, and the missing value.
NameAlphabet == {"a", "B", ".", " "}

StringsOver(alphabet, n) == UNION {[1..k -> alphabet] : k \in 1..n}

ArchiveTarGz == <<"a","r","c","h","i","v","e",".","t","a","r",".","g","z">>
Readme == <<"R","E","A","D","M","E">>
GitIgnore == <<".","g","i","t","i","g","n","o","r","e">>

NameInputs ==
    StringsOver(NameAlphabet, MaxNameLen) \cup {ArchiveTarGz, Readme, GitIgnore, NaN}

PlainRecord ==
    [file_name |-> <<"c">>, file_type |-> <<"d","o","c">>, size_mb |-> 1,
     hash |-> "h1"]

\* Two records: one whose name or type is drawn from the inputs, and a plain one
NormalizerInventories ==
    {<<[PlainRecord EXCEPT !.file_name = n, !.hash = "h2"], PlainRecord>> :
        n \in NameInputs}
    \cup {<<[PlainRecord EXCEPT !.file_type = t, !.hash = "h2"], PlainRecord>> :
        t \in NameInputs}

\* Values for normalize_extension itself: the strings above, the empty string,
\* the missing value and the text it returns for no extension
ExtInputs == NameInputs \cup {<<>>, NoExtension}

\* Inventories for the SEGYAnalyzer: SEG-Y files of both suffixes and of
\* either case among files of other kinds, each at a path of its own
SegyNames ==
    { <<"a",".","s","g","y">>, <<"b",".","S","E","G","Y">>, <<"s","g","y",".","t","x","t">> }

PathOf == <<"/data/1", "/data/2", "/data/3", "/data/4">>

SegyInventories ==
    UNION {[1..n -> SegyNames] : n \in 0..MaxSegyRecords}

SegyInventory(names) ==
    [i \in 1..Len(names) |->
        [file_path |-> PathOf[i], file_name |-> names[i],
         file_type |-> <<"s","e","i","s","m","i","c">>, size_mb |-> i,
         hash |-> HashOf[i]]]

-----------------------------------------------------------------------------
(* Specifications *)

IdleNormalizer ==
    /\ ext_value = NaN
    /\ ext_results = <<>>

IdleAnalyzer ==
    /\ segy_files = <<>>
    /\ missing_files = <<>>
    /\ error_files = <<>>
    /\ analysis_df = <<>>
    /\ coverage = <<>>
    /\ segy_calls = <<>>
    /\ found_files = <<>>

LoadedDashboard(d) ==
    /\ df = d
    /\ pc = "loaded"
    /\ view_option = "File Type"
    /\ df_prepared = <<>>
    /\ dup_mask = <<>>
    /\ summary = <<>>
    /\ pie_summary = <<>>
    /\ fig_count = NoFigure
    /\ fig_size = NoFigure

Loaded(d) ==
    /\ LoadedDashboard(d)
    /\ IdleNormalizer
    /\ IdleAnalyzer

Init == \E d \in Inventories : Loaded(d)

Next ==
    \E view \in ViewOptions :
        display_inventory_analysis(view) \/ display_duplicate_stats(view)

Spec == Init /\ [][Next]_vars

\* The inventory analysis by extension of an inventory with many extensions
InitWide == \E d \in WideInventories : Loaded(d)

NextWide == display_inventory_analysis("Extension")

SpecWide == InitWide /\ [][NextWide]_vars

\* The record normalizer on names, types and extensions of every shape
InitNormalizer ==
    \/ \E d \in NormalizerInventories : Loaded(d)
    \/ \E x \in ExtInputs :
          /\ LoadedDashboard(<<PlainRecord>>)
          /\ ext_value = x
          /\ ext_results = <<>>
          /\ IdleAnalyzer

NextNormalizer ==
    \/ display_inventory_analysis("Extension")
    \/ apply_normalize_extension

SpecNormalizer == InitNormalizer /\ [][NextNormalizer]_vars

\* A SEGYAnalyzer built on an inventory, and calls of its three methods
InitSegy ==
    \E names \in SegyInventories :
        /\ LoadedDashboard(SegyInventory(names))
        /\ IdleNormalizer
        /\ SEGYAnalyzer(SegyInventory(names))

NextSegy ==
    \/ analyze_segy_files
    \/ get_survey_coverage
    \/ get_survey_boundaries

SpecSegy == InitSegy /\ [][NextSegy]_vars

-----------------------------------------------------------------------------
(* Properties of the duplicate classifier and the aggregators *)

\* An analysis has run: df_prepared is the normalized copy of the table it was
\* given, and dup_mask, summary and pie_summary are what it computed from it.
AnalysisDone == pc \in {"inventory", "duplicates"}

Rows(d) == 1..Len(d)

KeyColumns == IF view_option = "Extension" THEN <<"extension", "file_type">>
              ELSE <<"file_type">>

SummaryKeyColumns == IF view_option = "Extension" THEN <<"Extension", "FileType">>
                     ELSE <<"FileType">>

\* C1: within each set of records sharing a hash the first in input order is
\* labelled original and every later one duplicate, whatever its name or size;
\* originals and duplicates together are all the records, and each distinct
\* hash has exactly one original.
C1_FirstSeenIsOriginal ==
    AnalysisDone =>
        /\ Len(dup_mask) = Len(df_prepared)
        /\ \A i \in Rows(df_prepared) :
              dup_mask[i] <=> \E j \in 1..(i - 1) : df_prepared[j].hash = df_prepared[i].hash
        /\ Cardinality({i \in Rows(df_prepared) : ~dup_mask[i]})
             + Cardinality({i \in Rows(df_prepared) : dup_mask[i]}) = Len(df_prepared)
        /\ \A h \in {df_prepared[i].hash : i \in Rows(df_prepared)} :
              Cardinality({i \in Rows(df_prepared) :
                              df_prepared[i].hash = h /\ ~dup_mask[i]}) = 1

\* A later record of a hash, differing from the first in name and in size, is
\* the duplicate and the first is the original.
C1_Witness ==
    /\ AnalysisDone
    /\ Len(df_prepared) = 2
    /\ df_prepared[1].hash = df_prepared[2].hash
    /\ df_prepared[1].file_name # df_prepared[2].file_name
    /\ df_prepared[1].size_mb # df_prepared[2].size_mb
    /\ dup_mask = <<FALSE, TRUE>>

\* C2: the Total Files of the detailed summary add up to the number of records
\* given, and its Total Size (MB) to the sum of their sizes, in both views and
\* also when a record's file_type or file_name is missing.
C2_TotalsConserved ==
    AnalysisDone =>
        /\ SumCol(summary, "TotalFiles") = Len(df_prepared)
        /\ SumCol(summary, "TotalSize") = SumCol(df_prepared, "size_mb")

\* The keys of the groups of the records: the base table of the join
BaseKeys ==
    {k \in {KeyOf(df_prepared[i], KeyColumns) : i \in Rows(df_prepared)} : ~HasNaN(k)}

StrictDuplicatesOf(k) ==
    {i \in Rows(df_prepared) : dup_mask[i] /\ KeyOf(df_prepared[i], KeyColumns) = k}

\* C3: in every row of the detailed summary 0 <= Duplicate Files <= Total Files
\* and Original Files = Total Files - Duplicate Files >= 0; a group without a
\* strict duplicate has Duplicate Files = 0 and Original Files = Total Files;
\* the join neither loses nor adds a group of the base table.
C3_DuplicateAccounting ==
    AnalysisDone =>
        /\ \A n \in Rows(summary) :
              /\ 0 <= summary[n].DuplicateFiles
              /\ summary[n].DuplicateFiles <= summary[n].TotalFiles
              /\ summary[n].OriginalFiles = summary[n].TotalFiles - summary[n].DuplicateFiles
              /\ summary[n].OriginalFiles >= 0
              /\ StrictDuplicatesOf(KeyOf(summary[n], SummaryKeyColumns)) = {}
                    => /\ summary[n].DuplicateFiles = 0
                       /\ summary[n].OriginalFiles = summary[n].TotalFiles
        /\ {KeyOf(summary[n], SummaryKeyColumns) : n \in Rows(summary)} = BaseKeys
        /\ Len(summary) = Cardinality(BaseKeys)

\* One group holds a strict duplicate and another group holds none.
C3_Witness ==
    /\ AnalysisDone
    /\ \E n, m \in Rows(summary) :
          /\ summary[n].DuplicateFiles = 1
          /\ summary[n].TotalFiles = 1
          /\ summary[m].DuplicateFiles = 0
          /\ summary[m].TotalFiles = 1
          /\ StrictDuplicatesOf(KeyOf(summary[m], SummaryKeyColumns)) = {}

\* Direct aggregation of the normalized records by extension alone
DirectByExtension ==
    LET keys == GroupKeys(df_prepared, <<"extension">>)
    IN  [n \in 1..Len(keys) |->
            LET g == {i \in Rows(df_prepared) : df_prepared[i].extension = keys[n][1]}
                named == {i \in g : df_prepared[i].file_name # NaN}
                dups == {i \in named : dup_mask[i]}
            IN  [Extension |-> keys[n][1],
                 TotalFiles |-> Cardinality(named),
                 DuplicateFiles |-> Cardinality(dups),
                 OriginalFiles |-> Cardinality(named) - Cardinality(dups),
                 TotalSize |-> SumCol(Filter(df_prepared,
                                  [i \in Rows(df_prepared) |-> i \in g]), "size_mb")]]

\* C4: in the Extension view the pie summary, obtained by summing the detailed
\* summary by Extension, is row for row the direct aggregation of the
\* normalized records by extension.
C4_RollupIsDirectAggregation ==
    (AnalysisDone /\ view_option = "Extension") => pie_summary = DirectByExtension

\* C5 as claimed: every row of the rollup by Extension carries an average size
\* equal to its Total Size (MB) / Total Files.
C5_RollupCarriesWeightedMean ==
    (AnalysisDone /\ view_option = "Extension") =>
        \A n \in Rows(pie_summary) :
            /\ "AvgSize" \in DOMAIN pie_summary[n]
            /\ pie_summary[n].AvgSize[1] * pie_summary[n].TotalFiles
                 = pie_summary[n].TotalSize * pie_summary[n].AvgSize[2]

RollupColumns ==
    {"Extension", "TotalFiles", "DuplicateFiles", "OriginalFiles", "TotalSize"}

\* C5 as amended: the rollup by Extension carries no average size at all, its
\* columns being Extension, Total Files, Duplicate Files, Original Files and
\* Total Size (MB); an average is carried only by the rows of the detailed
\* summary, where it is the mean size of the records of the row's group.
C5_RollupHasNoAverage ==
    (AnalysisDone /\ view_option = "Extension") =>
        /\ \A n \in Rows(pie_summary) : DOMAIN pie_summary[n] = RollupColumns
        /\ \A n \in Rows(summary) :
              LET g == {i \in Rows(df_prepared) :
                          KeyOf(df_prepared[i], KeyColumns)
                            = KeyOf(summary[n], SummaryKeyColumns)}
              IN  /\ summary[n].AvgSize[2] = Cardinality(g)
                  /\ summary[n].AvgSize[1] = summary[n].TotalSize

\* An extension of two file types whose groups differ in size is rolled up.
C5_Witness ==
    /\ AnalysisDone
    /\ view_option = "Extension"
    /\ Len(pie_summary) = 1
    /\ Len(summary) = 2
    /\ summary[1].AvgSize # summary[2].AvgSize

-----------------------------------------------------------------------------
(* Properties of the bucket collapser *)

\* The two charts of an analysis, each with its value column
Charts == {<<fig_count, "TotalFiles">>, <<fig_size, "TotalSize">>}

ChartsDrawn == pc \in {"inventory", "duplicates"}

CategoryColumn == NamesColumn(view_option)

NonIncreasing(d, col) == \A i, j \in Rows(d) : i < j => d[i][col] >= d[j][col]

\* The input value of a category
InputValue(name, col) ==
    LET i == CHOOSE i \in Rows(pie_summary) : pie_summary[i][CategoryColumn] = name
    IN  pie_summary[i][col]

\* The categories in the order in which the cutoff is applied
PercentageOrder(fig) == fig.main_categories \o fig.other_categories

\* The number of positions of that order whose cumulative percentage is
\* strictly less than 95
BelowNinetyFive(fig, col) ==
    Cardinality({k \in Rows(PercentageOrder(fig)) :
        100 * SumCol(SubSeq(PercentageOrder(fig), 1, k), col)
            < 95 * SumCol(pie_summary, col)})

\* C6: with N > 8 categories, sorted descending by percentage of the total, the
\* number kept individually is min(max(7, c + 1), N - 1), c being the number of
\* positions whose cumulative percentage is strictly less than 95; the kept
\* ones are the first that many of the sorted order; so between 7 and N - 1
\* are kept and "Other" absorbs at least one. For the sizes
\* 40,20,10,10,5,5,4,3,3 the cutoff is 8 and Other is 3.
C6_Cutoff ==
    (ChartsDrawn /\ Len(pie_summary) > 8) =>
        /\ \A ch \in Charts :
              LET fig    == ch[1]
                  col    == ch[2]
                  N      == Len(pie_summary)
                  sorted == PercentageOrder(fig)
                  cutoff == Min(Max(7, BelowNinetyFive(fig, col) + 1), N - 1)
              IN  /\ Len(sorted) = N
                  /\ {sorted[i][CategoryColumn] : i \in Rows(sorted)}
                       = {pie_summary[i][CategoryColumn] : i \in Rows(pie_summary)}
                  /\ \A i \in Rows(sorted) :
                        sorted[i][col] = InputValue(sorted[i][CategoryColumn], col)
                  /\ NonIncreasing(sorted, col)
                  /\ fig.main_categories = SubSeq(sorted, 1, cutoff)
                  /\ Len(fig.main_categories) >= 7
                  /\ Len(fig.main_categories) <= N - 1
                  /\ Len(fig.other_categories) >= 1
        /\ [i \in Rows(df) |-> df[i].size_mb] = <<40, 20, 10, 10, 5, 5, 4, 3, 3>>
              => /\ Len(fig_size.main_categories) = 8
                 /\ \E j \in Rows(fig_size.plot_df) :
                       /\ fig_size.plot_df[j][CategoryColumn] = Other
                       /\ fig_size.plot_df[j].TotalSize = 3

\* The chart of the sizes 40,20,10,10,5,5,4,3,3 keeps 8 categories.
C6_Witness ==
    /\ ChartsDrawn
    /\ [i \in Rows(df) |-> df[i].size_mb] = <<40, 20, 10, 10, 5, 5, 4, 3, 3>>
    /\ Len(fig_size.main_categories) = 8
    /\ Len(fig_size.other_categories) = 1
    /\ fig_size.other_categories[1].TotalSize = 3

\* C7 as claimed: with N > 8 categories the collapsed output, the kept
\* categories and the "Other" row, has at most 8 rows.
C7_AtMostEightRows ==
    (ChartsDrawn /\ Len(pie_summary) > 8) =>
        \A ch \in Charts : ch[1].collapsed => Len(ch[1].plot_df) <= 8

\* C7 as amended: with N > 8 categories the collapsed output has one row more
\* than are kept individually, which is at least 8 and at most N rows.
C7_BetweenEightAndNRows ==
    (ChartsDrawn /\ Len(pie_summary) > 8) =>
        \A ch \in Charts :
            /\ ch[1].collapsed
            /\ Len(ch[1].plot_df) = Len(ch[1].main_categories) + 1
            /\ Len(ch[1].plot_df) >= 8
            /\ Len(ch[1].plot_df) <= Len(pie_summary)

\* A collapsed chart of 9 categories that shows 9 rows, and one that shows 8.
C7_Witness ==
    /\ ChartsDrawn
    /\ Len(pie_summary) = 9
    /\ SumCol(pie_summary, "TotalSize") > 0
    /\ Len(fig_count.plot_df) = 9
    /\ Len(fig_size.plot_df) = 8

\* C8: the values of the output rows, "Other" included, add up to the sum of
\* the input values, and every input category is accounted for exactly once:
\* as its own output row with its value unchanged, or inside "Other".
C8_CollapseConserves ==
    ChartsDrawn =>
        \A ch \in Charts :
            LET fig == ch[1]
                col == ch[2]
                others == {j \in Rows(fig.plot_df) :
                              fig.plot_df[j][CategoryColumn] = Other}
            IN  /\ SumCol(fig.plot_df, col) = SumCol(pie_summary, col)
                /\ \A i \in Rows(pie_summary) :
                      LET name == pie_summary[i][CategoryColumn]
                          own == {j \in Rows(fig.plot_df) :
                                    fig.plot_df[j][CategoryColumn] = name}
                          merged == {j \in Rows(fig.other_categories) :
                                    fig.other_categories[j][CategoryColumn] = name}
                      IN  /\ Cardinality(own) + Cardinality(merged) = 1
                          /\ \A j \in own : fig.plot_df[j][col] = pie_summary[i][col]
                          /\ \A j \in merged :
                                fig.other_categories[j][col] = pie_summary[i][col]
                /\ Len(fig.plot_df) = Len(pie_summary) - Len(fig.other_categories)
                                         + Cardinality(others)
                /\ fig.other_categories # <<>> =>
                      /\ Cardinality(others) = 1
                      /\ \A j \in others :
                            fig.plot_df[j][col] = SumCol(fig.other_categories, col)

\* "Other" merges two categories of positive size and shows their sum.
C8_Witness ==
    /\ ChartsDrawn
    /\ Len(fig_size.other_categories) = 2
    /\ fig_size.other_categories[1].TotalSize > 0
    /\ fig_size.other_categories[2].TotalSize > 0
    /\ \E j \in Rows(fig_size.plot_df) :
          /\ fig_size.plot_df[j][CategoryColumn] = Other
          /\ fig_size.plot_df[j].TotalSize
               = fig_size.other_categories[1].TotalSize
                   + fig_size.other_categories[2].TotalSize

\* C9: with N <= 8 categories the output holds exactly the N input categories
\* with their values unchanged, and no "Other" row that was not an input
\* category.
C9_NoCollapseUpToEight ==
    (ChartsDrawn /\ Len(pie_summary) <= 8) =>
        \A ch \in Charts :
            LET fig == ch[1]
                col == ch[2]
            IN  /\ Len(fig.plot_df) = Len(pie_summary)
                /\ \A i \in Rows(pie_summary) :
                      Cardinality({j \in Rows(fig.plot_df) :
                          /\ fig.plot_df[j][CategoryColumn]
                               = pie_summary[i][CategoryColumn]
                          /\ fig.plot_df[j][col] = pie_summary[i][col]}) = 1
                /\ \A j \in Rows(fig.plot_df) :
                      fig.plot_df[j][CategoryColumn] = Other =>
                          \E i \in Rows(pie_summary) :
                              pie_summary[i][CategoryColumn] = Other

\* Exactly 8 categories, two of which would be small enough to collapse.
C9_Witness ==
    /\ ChartsDrawn
    /\ Len(pie_summary) = 8
    /\ Len(fig_size.plot_df) = 8
    /\ fig_size.plot_df[6].TotalSize > 1
    /\ fig_size.plot_df[7].TotalSize = 1
    /\ fig_size.plot_df[8].TotalSize = 0

\* C10: the output rows are in non-increasing order of raw value, the "Other"
\* row standing where its summed value falls and not pinned last.
C10_OutputOrder ==
    ChartsDrawn => \A ch \in Charts : NonIncreasing(ch[1].plot_df, ch[2])

\* "Other" stands before a kept category of a smaller value.
C10_Witness ==
    /\ ChartsDrawn
    /\ fig_size.collapsed
    /\ \E j \in Rows(fig_size.plot_df) :
          /\ j < Len(fig_size.plot_df)
          /\ fig_size.plot_df[j][CategoryColumn] = Other
          /\ fig_size.plot_df[j].TotalSize > fig_size.plot_df[j + 1].TotalSize

-----------------------------------------------------------------------------
(* Properties of the record normalizer *)

\* ext is what the last dot of name is followed by, lower-cased and without
\* the blanks around it; "no extension" when name has no such characters.
DerivedFrom(name, e) ==
    LET suffixStarts ==
            IF name = NaN THEN {}
            ELSE {k \in 1..Len(name) :
                     /\ name[k] = "."
                     /\ \A j \in (k + 1)..Len(name) : name[j] # "."
                     /\ \E j \in (k + 1)..Len(name) : name[j] # " "}
    IN  IF suffixStarts = {} THEN e = NoExtension
        ELSE \E k \in suffixStarts : \E a, b \in (k + 1)..Len(name) :
                /\ a <= b
                /\ name[a] # " "
                /\ name[b] # " "
                /\ \A j \in (k + 1)..(a - 1) : name[j] = " "
                /\ \A j \in (b + 1)..Len(name) : name[j] = " "
                /\ e = [i \in 1..(b - a + 1) |-> ToLower(name[a + i - 1])]

\* C11: the derived extension of a record is the part of its file name after
\* the last '.', lower-cased and trimmed, and the text "no extension" when the
\* name has no '.', ends in '.', or has only blanks after its last '.';
\* archive.tar.gz gives gz, README gives no extension, .gitignore gives
\* gitignore.
C11_ExtensionDerivation ==
    (AnalysisDone /\ view_option = "Extension") =>
        \A i \in Rows(df_prepared) :
            LET name == df_prepared[i].file_name
                e == df_prepared[i].extension
            IN  /\ DerivedFrom(name, e)
                /\ name = ArchiveTarGz => e = <<"g","z">>
                /\ name = Readme => e = NoExtension
                /\ name = GitIgnore => e = <<"g","i","t","i","g","n","o","r","e">>

\* A name with two dots whose last suffix is an upper-case letter and a blank
C11_Witness ==
    /\ pc = "inventory"
    /\ view_option = "Extension"
    /\ \E i \in Rows(df_prepared) :
          /\ df_prepared[i].file_name = <<".", ".", "B", " ">>
          /\ df_prepared[i].extension = <<"b">>

-----------------------------------------------------------------------------
(* Properties of the order of the detailed summary *)

\* The first record of the grouped table that carries the key
FirstAppearance(k) ==
    CHOOSE i \in Rows(df_prepared) :
        /\ KeyOf(df_prepared[i], KeyColumns) = k
        /\ \A j \in 1..(i - 1) : KeyOf(df_prepared[j], KeyColumns) # k

\* C12 as stated: the rows of the detailed summary are in non-increasing order
\* of Total Files, and groups of equal Total Files stand in the order in which
\* their keys first appear in the input records.
C12_TiesInFirstAppearanceOrder ==
    AnalysisDone =>
        /\ NonIncreasing(summary, "TotalFiles")
        /\ \A m, n \in Rows(summary) :
              (m < n /\ summary[m].TotalFiles = summary[n].TotalFiles)
                 => FirstAppearance(KeyOf(summary[m], SummaryKeyColumns))
                       < FirstAppearance(KeyOf(summary[n], SummaryKeyColumns))

\* C12 as the code has it: the rows of the detailed summary are in
\* non-increasing order of Total Files, one row for each group of the grouped
\* table; the order of first appearance plays no part.
C12_NonIncreasingTotalFiles ==
    AnalysisDone =>
        /\ NonIncreasing(summary, "TotalFiles")
        /\ \A m, n \in Rows(summary) :
              m # n => KeyOf(summary[m], SummaryKeyColumns)
                          # KeyOf(summary[n], SummaryKeyColumns)

\* The sort has moved a group of more files before a group of a smaller key
C12_Witness ==
    /\ AnalysisDone
    /\ Len(summary) >= 2
    /\ summary[1].TotalFiles > summary[2].TotalFiles
    /\ KeyLess(KeyOf(summary[2], SummaryKeyColumns),
               KeyOf(summary[1], SummaryKeyColumns))

-----------------------------------------------------------------------------
(* Properties of an inventory without records *)

\* C13 as stated: with an inventory of zero records no step of the inventory
\* view or of the duplicate view ends in error, and every aggregation (the
\* duplicate metrics, the grouped summary, the rollup and the bucket collapse)
\* gives an empty or zero result.
C13_EmptyInventoryCompletes ==
    df = <<>> =>
        /\ pc # "error"
        /\ AnalysisDone =>
              /\ df_prepared = <<>>
              /\ dup_mask = <<>>
              /\ summary = <<>>
              /\ pie_summary = <<>>
              /\ \A ch \in Charts : ~ch[1].collapsed /\ ch[1].plot_df = <<>>

-----------------------------------------------------------------------------
(* Properties of the SEGYAnalyzer *)

LastCall == segy_calls[Len(segy_calls)]

\* The paths of the SEG-Y records that the last call found in a condition
FoundIn(conds) ==
    LET RECURSIVE Paths(_)
        Paths(i) ==
            IF i > Len(segy_files) THEN <<>>
            ELSE (IF found_files[i] \in conds THEN <<segy_files[i].file_path>> ELSE <<>>)
                    \o Paths(i + 1)
    IN  Paths(1)

PathsOf(d) == [i \in 1..Len(d) |-> d[i].file_path]

ErrorPaths == [i \in 1..Len(error_files) |-> error_files[i][1]]

-----------------------------------------------------------------------------
(* Idempotence of the record normalizer *)

\* The normalizer of prepare_data_for_analysis for the chosen view
Normalized(d) ==
    IF view_option = "Extension" THEN WithExtension(TitleTypes(d)) ELSE TitleTypes(d)

\* C15: normalizing a record that is already normalized gives the same
\* record: the title-cased file types are what one str.title() makes of the
\* uploaded ones although the code title-cases twice, and the prepared table
\* is its own normalization; and normalize_extension applied to its own result
\* returns that result, for missing, empty and blank values and for the text
\* "no extension" too.
C15_NormalizationIdempotent ==
    /\ AnalysisDone =>
          /\ Normalized(df_prepared) = df_prepared
          /\ pc = "inventory" =>
                \A i \in Rows(df) : df_prepared[i].file_type = StrTitle(df[i].file_type)
    /\ \A n \in 2..Len(ext_results) : ext_results[n] = ext_results[n - 1]

\* normalize_extension has been applied twice to a value that it changes, and
\* the inventory analysis has title-cased a file type that was not
C15_Witness ==
    /\ pc = "inventory"
    /\ df_prepared[1].file_type # df[1].file_type
    /\ ext_value = <<" ", "B">>
    /\ ext_results = << <<"b">>, <<"b">> >>

-----------------------------------------------------------------------------
(* Size of the "Other" row *)

FivePercent == 100 - CumulativePct

\* C16: with N > 8 categories of non-negative values and a positive total, the
\* "Other" row of a chart either holds at most 5% of the total value or stands
\* for exactly one input category, one of the smallest value; it never merges
\* two or more categories that together exceed 5% of the total.
C16_OtherIsSmallOrSingle ==
    (ChartsDrawn /\ Len(pie_summary) > 8) =>
        \A ch \in Charts :
            LET fig == ch[1]
                col == ch[2]
                total == SumCol(pie_summary, col)
            IN  total > 0 =>
                  /\ fig.collapsed
                  /\ \E j \in Rows(fig.plot_df) :
                        /\ fig.plot_df[j][CategoryColumn] = Other
                        /\ fig.plot_df[j][col] = SumCol(fig.other_categories, col)
                        /\ \/ 100 * fig.plot_df[j][col] <= FivePercent * total
                           \/ /\ Len(fig.other_categories) = 1
                              /\ \A i \in Rows(pie_summary) :
                                    pie_summary[i][col] >= fig.other_categories[1][col]
                  /\ ~(/\ Len(fig.other_categories) >= 2
                        /\ 100 * SumCol(fig.other_categories, col) > FivePercent * total)

\* One chart whose "Other" is a single category of more than 5% of the total
\* and one whose "Other" merges two categories of at most 5% together.
C16_Witness ==
    /\ ChartsDrawn
    /\ Len(pie_summary) > 8
    /\ Len(fig_count.other_categories) = 1
    /\ 100 * SumCol(fig_count.other_categories, "TotalFiles")
          > FivePercent * SumCol(pie_summary, "TotalFiles")
    /\ Len(fig_size.other_categories) = 2
    /\ SumCol(fig_size.other_categories, "TotalSize") > 0
    /\ 100 * SumCol(fig_size.other_categories, "TotalSize")
          <= FivePercent * SumCol(pie_summary, "TotalSize")

====
